---------------------------- MODULE Spec2Model ----------------------------
(***************************************************************************)
(* Vehicle damage detection demo: the media / analysis state machine of    *)
(* the DemoSection component (src/src/components/DemoSection.tsx) and the  *)
(* result aggregators combineImageResults / combineFrameResults.           *)
(*                                                                         *)
(* Data URLs are modelled as positive integers naming their content; 0 is  *)
(* the JavaScript null.  JavaScript objects are records, a missing         *)
(* property is a field missing from the record's DOMAIN.                   *)
(***************************************************************************)
EXTENDS Integers, Sequences, FiniteSets, TLC

(***************************************************************************)
(* Bounds of the model.                                                    *)
(***************************************************************************)
MaxFiles == 2        \* files carried by one drop / file selection
MaxPending == 1      \* file reads that may be pending at the same time
MaxUploads == 2      \* drops / file selections of one session that start a file read
MaxSubmitted == 2    \* units handed to analysis calls (single or batch) in one session
MaxSeeks == 1        \* seeks through the controls of the video during one pass
MaxBodies == 6       \* kinds of success bodies the component receives
MaxAggUnits == 3     \* units of an aggregator input (aggregator specification)

(***************************************************************************)
(* JavaScript values.                                                      *)
(***************************************************************************)
NoUrl == 0
Null == [null |-> TRUE]

Has(obj, field) == field \in DOMAIN obj

Range(s) == {s[k] : k \in 1..Len(s)}

RECURSIVE SeqsUpTo(_, _)
SeqsUpTo(S, n) ==
  IF n = 0 THEN {<<>>}
  ELSE LET shorter == SeqsUpTo(S, n - 1)
       IN  shorter \cup {Append(s, x) : s \in {t \in shorter : Len(t) = n - 1}, x \in S}

(***************************************************************************)
(* Files offered by the user.  type is the MIME type split at the slash,   *)
(* url the content readAsDataURL produces, duration the length of a video  *)
(* in tenths of a second.                                                  *)
(***************************************************************************)
ImageFile1 == [type |-> [major |-> "image", minor |-> "png"], url |-> 1, duration |-> 0]
ImageFile2 == [type |-> [major |-> "image", minor |-> "jpeg"], url |-> 2, duration |-> 0]
VideoFile == [type |-> [major |-> "video", minor |-> "mp4"], url |-> 3, duration |-> 15]
OtherFile == [type |-> [major |-> "application", minor |-> "pdf"], url |-> 4, duration |-> 0]

FileSet == {ImageFile1, ImageFile2, VideoFile, OtherFile}

\* the lists of distinct files a drop or a file selection can carry
FileLists == {files \in SeqsUpTo(FileSet, MaxFiles) : Cardinality(Range(files)) = Len(files)}

\* file.type.startsWith("image/") and file.type.startsWith("video/")
startsWith(type, prefix) == type.major = prefix

\* mutant of filterImages: each image put in front of the ones found before
RECURSIVE filterImagesReversed(_)
filterImagesReversed(files) ==
  IF files = <<>> THEN <<>>
  ELSE IF startsWith(Head(files).type, "image")
       THEN filterImagesReversed(Tail(files)) \o <<Head(files)>>
       ELSE filterImagesReversed(Tail(files))

\* files.filter(f => f.type.startsWith("image/"))
RECURSIVE filterImages(_)
filterImages(files) ==
  IF files = <<>> THEN <<>>
  ELSE IF startsWith(Head(files).type, "image")
       THEN <<Head(files)>> \o filterImages(Tail(files))
       ELSE filterImages(Tail(files))

(***************************************************************************)
(* Helpers standing for the JavaScript built-ins the aggregators use.      *)
(***************************************************************************)
\* { ...obj, ...extra }
Spread(obj, extra) ==
  [f \in DOMAIN obj \cup DOMAIN extra |-> IF f \in DOMAIN extra THEN extra[f] ELSE obj[f]]

\* [...new Set(list)]: the distinct elements in order of first occurrence
RECURSIVE uniqueList(_, _)
uniqueList(list, seen) ==
  IF list = <<>> THEN <<>>
  ELSE IF Head(list) \in seen
       THEN uniqueList(Tail(list), seen)
       ELSE <<Head(list)>> \o uniqueList(Tail(list), seen \cup {Head(list)})

\* mutant of newSet: no element is dropped
newSetKeepAll(list) == list

newSet(list) == uniqueList(list, {})

\* list.flatMap(f): the concatenation of a list of lists
RECURSIVE flat(_)
flat(lists) == IF lists = <<>> THEN <<>> ELSE Head(lists) \o flat(Tail(lists))

\* list.reduce((sum, f) => sum + f, 0)
RECURSIVE sumOf(_)
sumOf(list) == IF list = <<>> THEN 0 ELSE Head(list) + sumOf(Tail(list))

\* mutant of mathMax: the values added up
mathMaxAsSum(list) == sumOf(list)

\* the value of Math.max() with no argument
NegInfinity == [infinity |-> "-"]

\* Math.max(...list)
RECURSIVE mathMax(_)
mathMax(list) ==
  IF Len(list) = 0 THEN NegInfinity
  ELSE IF Len(list) = 1 THEN Head(list)
  ELSE LET rest == mathMax(Tail(list))
       IN  IF Head(list) > rest THEN Head(list) ELSE rest

\* the value of 0 / 0
NaN == [nan |-> TRUE]

\* Math.round(sum / n) of a non-negative sum: halves round up
mathRound(sum, n) == IF n = 0 THEN NaN ELSE (2 * sum + n) \div (2 * n)

\* list.join(", ")
RECURSIVE join(_)
join(list) ==
  IF list = <<>> THEN <<>>
  ELSE IF Len(list) = 1 THEN list
       ELSE <<Head(list), ", ">> \o join(Tail(list))

\* mutant of countDamaged: counts the units showing a vehicle
RECURSIVE countWithVehicle(_)
countWithVehicle(list) ==
  IF list = <<>> THEN 0
  ELSE (IF Head(list).hasVehicle THEN 1 ELSE 0) + countWithVehicle(Tail(list))

\* list.filter(f => f.hasDamage).length
RECURSIVE countDamaged(_)
countDamaged(list) ==
  IF list = <<>> THEN 0
  ELSE (IF Head(list).hasDamage THEN 1 ELSE 0) + countDamaged(Tail(list))

severityOrder == [None |-> 0, Minor |-> 1, Moderate |-> 2, Severe |-> 3]

\* mutant of reduceSeverity: the comparison turned around
RECURSIVE reduceSeverityLess(_, _)
reduceSeverityLess(list, max) ==
  IF list = <<>> THEN max
  ELSE LET s == Head(list).overallSeverity
       IN  reduceSeverityLess(Tail(list),
             IF s \in DOMAIN severityOrder /\ severityOrder[s] < severityOrder[max]
             THEN s ELSE max)

\* reduce((max, unit) => severityOrder[unit.overallSeverity] > severityOrder[max]
\*                          ? unit.overallSeverity : max, "None")
RECURSIVE reduceSeverity(_, _)
reduceSeverity(list, max) ==
  IF list = <<>> THEN max
  ELSE LET s == Head(list).overallSeverity
       IN  reduceSeverity(Tail(list),
             IF s \in DOMAIN severityOrder /\ severityOrder[s] > severityOrder[max]
             THEN s ELSE max)

\* f.estimatedRepairCost?.min || 0   (and max)
\* mutant of costBound: the other bound of the unit's cost is read
costBoundSwapped(unit, bound) ==
  LET other == IF bound = "min" THEN "max" ELSE "min"
  IN  IF Has(unit, "estimatedRepairCost") /\ Has(unit.estimatedRepairCost, other)
      THEN unit.estimatedRepairCost[other]
      ELSE 0

costBound(unit, bound) ==
  IF Has(unit, "estimatedRepairCost") /\ Has(unit.estimatedRepairCost, bound)
  THEN unit.estimatedRepairCost[bound]
  ELSE 0

\* f.estimatedRepairCost?.currency, "" standing for every falsy value
costCurrency(unit) ==
  IF Has(unit, "estimatedRepairCost") /\ Has(unit.estimatedRepairCost, "currency")
  THEN unit.estimatedRepairCost.currency
  ELSE ""

\* mutant of findCurrency: only the first unit is looked at
findCurrencyOfFirstUnit(list) ==
  IF list = <<>> \/ costCurrency(Head(list)) = "" THEN "INR" ELSE costCurrency(Head(list))

\* list.find(f => f.estimatedRepairCost?.currency)?.estimatedRepairCost?.currency || "INR"
RECURSIVE findCurrency(_)
findCurrency(list) ==
  IF list = <<>> THEN "INR"
  ELSE IF costCurrency(Head(list)) # "" THEN costCurrency(Head(list))
       ELSE findCurrency(Tail(list))

\* mutant of unitDamages: the stamp counted from 1
unitDamagesShifted(unit) ==
  [k \in 1..Len(unit.damages) |->
     Spread(unit.damages[k], [frameIndex |-> unit.frameIndex + 1])]

\* the damages of every unit, each stamped with the unit's frameIndex
unitDamages(unit) ==
  [k \in 1..Len(unit.damages) |-> Spread(unit.damages[k], [frameIndex |-> unit.frameIndex])]

\* mutant of collectDamages: every unit's damages put in front of the earlier ones
collectDamagesInFront(list) ==
  flat([k \in 1..Len(list) |-> unitDamages(list[Len(list) + 1 - k])])

collectDamages(list) == flat([k \in 1..Len(list) |-> unitDamages(list[k])])

\* mutant of unitRecommendations: a unit's recommendations taken last first
unitRecommendationsReversed(unit) ==
  IF Has(unit, "recommendations")
  THEN [k \in 1..Len(unit.recommendations) |->
          unit.recommendations[Len(unit.recommendations) + 1 - k]]
  ELSE <<>>

\* f.recommendations || []
unitRecommendations(unit) == IF Has(unit, "recommendations") THEN unit.recommendations ELSE <<>>

\* the summary sentence, as the sequence of its pieces
summaryText(unitsWord, unitWord, n, withDamage, allDamages, uniqueDamageTypes, affectedAreas, overallSeverity) ==
  <<"Comprehensive analysis of ", ToString(n), unitsWord, ToString(withDamage), unitWord,
    "A total of ", ToString(Len(allDamages)), " damage instances were detected across ",
    ToString(Len(uniqueDamageTypes)), " damage type(s): ">>
  \o join(uniqueDamageTypes)
  \o <<". Affected areas include: ">>
  \o join(affectedAreas)
  \o <<". Overall severity is assessed as ", overallSeverity, ".">>

\* the exception leaving a call on a property of undefined
TypeError == [thrown |-> "TypeError"]

\* image.damages.forEach / frame.damages.forEach throws for a unit that has
\* no damages array
combineThrows(list) == \E k \in 1..Len(list) : ~Has(list[k], "damages")

combineImageResults(imageResults) ==
  IF combineThrows(imageResults) THEN TypeError ELSE
  LET imagesWithDamage == countDamaged(imageResults)
      avgConfidence ==
        mathRound(sumOf([k \in 1..Len(imageResults) |-> imageResults[k].confidenceScore]),
                  Len(imageResults))
      allDamages == collectDamages(imageResults)
      uniqueDamageTypes == newSet([k \in 1..Len(allDamages) |-> allDamages[k].type])
      affectedAreas ==
        newSet(flat([k \in 1..Len(imageResults) |-> imageResults[k].affectedAreas]))
      overallSeverity == reduceSeverity(imageResults, "None")
      minCost == mathMax([k \in 1..Len(imageResults) |-> costBound(imageResults[k], "min")])
      maxCost == mathMax([k \in 1..Len(imageResults) |-> costBound(imageResults[k], "max")])
      currency == findCurrency(imageResults)
      recommendations ==
        newSet(flat([k \in 1..Len(imageResults) |-> unitRecommendations(imageResults[k])]))
      summary == summaryText(" images reveals ", " image(s) showing vehicle damage. ",
                             Len(imageResults), imagesWithDamage, allDamages,
                             uniqueDamageTypes, affectedAreas, overallSeverity)
  IN  [totalFramesAnalyzed |-> Len(imageResults),
       framesWithDamage |-> imagesWithDamage,
       overallSeverity |-> overallSeverity,
       averageConfidence |-> avgConfidence,
       allDamages |-> allDamages,
       uniqueDamageTypes |-> uniqueDamageTypes,
       affectedAreas |-> affectedAreas,
       estimatedRepairCost |-> [min |-> minCost, max |-> maxCost, currency |-> currency],
       recommendations |-> recommendations,
       summary |-> summary,
       frameResults |-> imageResults]

\* mutant of combineFrameResults: the confidence mean is rounded down
combineFrameResultsFloor(frameResults) ==
  IF combineThrows(frameResults) THEN TypeError ELSE
  LET report == combineImageResults(frameResults)
  IN  [report EXCEPT
         !.averageConfidence =
           sumOf([k \in 1..Len(frameResults) |-> frameResults[k].confidenceScore])
             \div Len(frameResults),
         !.summary = summaryText(" video frames reveals ",
                                 " frame(s) showing vehicle damage. ",
                                 Len(frameResults), report.framesWithDamage,
                                 report.allDamages, report.uniqueDamageTypes,
                                 report.affectedAreas, report.overallSeverity)]

combineFrameResults(frameResults) ==
  IF combineThrows(frameResults) THEN TypeError ELSE
  LET framesWithDamage == countDamaged(frameResults)
      avgConfidence ==
        mathRound(sumOf([k \in 1..Len(frameResults) |-> frameResults[k].confidenceScore]),
                  Len(frameResults))
      allDamages == collectDamages(frameResults)
      uniqueDamageTypes == newSet([k \in 1..Len(allDamages) |-> allDamages[k].type])
      affectedAreas ==
        newSet(flat([k \in 1..Len(frameResults) |-> frameResults[k].affectedAreas]))
      overallSeverity == reduceSeverity(frameResults, "None")
      minCost == mathMax([k \in 1..Len(frameResults) |-> costBound(frameResults[k], "min")])
      maxCost == mathMax([k \in 1..Len(frameResults) |-> costBound(frameResults[k], "max")])
      currency == findCurrency(frameResults)
      recommendations ==
        newSet(flat([k \in 1..Len(frameResults) |-> unitRecommendations(frameResults[k])]))
      summary == summaryText(" video frames reveals ", " frame(s) showing vehicle damage. ",
                             Len(frameResults), framesWithDamage, allDamages,
                             uniqueDamageTypes, affectedAreas, overallSeverity)
  IN  [totalFramesAnalyzed |-> Len(frameResults),
       framesWithDamage |-> framesWithDamage,
       overallSeverity |-> overallSeverity,
       averageConfidence |-> avgConfidence,
       allDamages |-> allDamages,
       uniqueDamageTypes |-> uniqueDamageTypes,
       affectedAreas |-> affectedAreas,
       estimatedRepairCost |-> [min |-> minCost, max |-> maxCost, currency |-> currency],
       recommendations |-> recommendations,
       summary |-> summary,
       frameResults |-> frameResults]

VARIABLES
  uploadedImage, uploadedImages, uploadedVideo, videoFrames,
  selectedFrameIndex, selectedImageIndex,
  isExtractingFrames, isAnalyzing, isAnalyzingAllFrames, isAnalyzingAllImages,
  isDragOver,
  analysisProgress, currentAnalyzingFrame,
  results, combinedResults, mediaType,
  toast,          \* the notice shown last
  resultsOf,      \* the image the value of results was computed from
  readers,        \* pending FileReader passes
  uploads,        \* drops / file selections that started a file read so far
  submitted,      \* units handed to analysis calls so far
  extraction,     \* the extractFramesFromVideo call
  single,         \* the analyzeImage call
  imagesRun,      \* the analyzeAllImages call
  framesRun,      \* the analyzeAllFrames call
  aggInput, aggImages, aggFrames,  \* aggregator specification
  handler         \* a request to the analyze-damage function being served

mediaVars == <<uploadedImage, uploadedImages, uploadedVideo, videoFrames,
               selectedFrameIndex, selectedImageIndex, mediaType>>
resultVars == <<results, combinedResults, resultsOf>>
analysisFlags == <<isExtractingFrames, isAnalyzing, isAnalyzingAllFrames, isAnalyzingAllImages>>
flagVars == <<analysisFlags, isDragOver>>
progressVars == <<analysisProgress, currentAnalyzingFrame>>
procVars == <<readers, uploads, submitted, extraction, single, imagesRun, framesRun>>
\* the variables of the stand-alone specifications
aggVars == <<aggInput, aggImages, aggFrames, handler>>

vars == <<mediaVars, resultVars, flagVars, progressVars, toast, procVars, aggVars>>


(***************************************************************************)
(* Values of the component state.                                          *)
(***************************************************************************)
RECURSIVE gcd(_, _)
gcd(a, b) == IF b = 0 THEN a ELSE gcd(b, a % b)

\* (done / total) * 100 as an exact fraction in lowest terms
percent(done, total) ==
  LET g == gcd(done * 100, total)
  IN  [num |-> (done * 100) \div g, den |-> total \div g]

\* mutant of ZeroProgress: the bar left full
FullProgress == percent(1, 1)

ZeroProgress == percent(0, 1)

NoToast == [title |-> "", variant |-> "default"]
notice(title, variant) == [title |-> title, variant |-> variant]

\* Which branch of the upload card is rendered (DemoSection.tsx 1068-1442)
View ==
  IF uploadedImage = NoUrl /\ uploadedVideo = NoUrl THEN "upload"
  ELSE IF mediaType = "video" /\ Len(videoFrames) = 0 THEN "video"
  ELSE IF mediaType = "video" /\ Len(videoFrames) > 0 THEN "frames"
  ELSE IF mediaType = "multi-image" /\ Len(uploadedImages) > 0 THEN "multi"
  ELSE "single"

IdleRun == [pc |-> "idle", units |-> <<>>, i |-> 0, unitResults |-> <<>>,
            issued |-> <<>>, log |-> <<>>, ended |-> "none"]
IdleSingle == [pc |-> "idle", image |-> NoUrl]
IdleExtraction == [pc |-> "idle", video |-> NoUrl, duration |-> 0, frameCount |-> 0,
                   i |-> 0, frames |-> <<>>, mounted |-> FALSE, seeks |-> 0]

\* the <video> element of the video branch leaves the page: the element a
\* pass holds, with its onseeked handler, is no longer the one shown
unmount(call) == [call EXCEPT !.mounted = FALSE]

\* the analyze-damage function: no response sent, no reply of the model read
NoResponse == [status |-> 0, body |-> Null]
NoReply == [present |-> FALSE, text |-> <<>>]
IdleHandler == [pc |-> "idle", replied |-> FALSE, reply |-> NoReply, analysisResult |-> Null,
                requests |-> <<>>, response |-> NoResponse]

(***************************************************************************)
(* Responses of the analyze-damage function seen by the component.         *)
(***************************************************************************)
CleanBody ==
  [hasVehicle |-> TRUE, hasDamage |-> FALSE, overallSeverity |-> "None",
   confidenceScore |-> 95, damages |-> <<>>, affectedAreas |-> <<>>,
   estimatedRepairCost |-> [min |-> 0, max |-> 0, currency |-> "INR"],
   recommendations |-> <<"keep up maintenance">>,
   summary |-> "good condition", annotatedImage |-> NoUrl]

DamagedBody ==
  [hasVehicle |-> TRUE, hasDamage |-> TRUE, overallSeverity |-> "Moderate",
   confidenceScore |-> 80,
   damages |-> <<[type |-> "dent", location |-> "hood", severity |-> "Moderate",
                  description |-> "dent on the hood"]>>,
   affectedAreas |-> <<"hood">>,
   estimatedRepairCost |-> [min |-> 5000, max |-> 25000, currency |-> "INR"],
   recommendations |-> <<"visit a body shop">>,
   summary |-> "moderate damage", annotatedImage |-> 9]

\* a success body that claims damage and lists none: what the function
\* sends for the reply {"hasVehicle": false, "hasDamage": true}
ListlessBody == [hasVehicle |-> FALSE, hasDamage |-> TRUE, annotatedImage |-> NoUrl]

Init ==
  /\ uploadedImage = NoUrl
  /\ uploadedImages = <<>>
  /\ uploadedVideo = NoUrl
  /\ videoFrames = <<>>
  /\ selectedFrameIndex = 0
  /\ selectedImageIndex = 0
  /\ isExtractingFrames = FALSE
  /\ isAnalyzing = FALSE
  /\ isAnalyzingAllFrames = FALSE
  /\ isAnalyzingAllImages = FALSE
  /\ isDragOver = FALSE
  /\ analysisProgress = ZeroProgress
  /\ currentAnalyzingFrame = 0
  /\ results = Null
  /\ combinedResults = Null
  /\ mediaType = "null"
  /\ toast = NoToast
  /\ resultsOf = NoUrl
  /\ readers = <<>>
  /\ uploads = 0
  /\ submitted = 0
  /\ extraction = IdleExtraction
  /\ single = IdleSingle
  /\ imagesRun = IdleRun
  /\ framesRun = IdleRun
  /\ aggInput = <<>>
  /\ aggImages = Null
  /\ aggFrames = Null
  /\ handler = IdleHandler

(***************************************************************************)
(* The analyze-damage function.  The content of the model's reply is a     *)
(* text, given as the sequence of its pieces: a code fence, the word json, *)
(* white space, text that is not JSON, or the text of a JSON value.        *)
(***************************************************************************)
MaxTokens == 4       \* pieces of the content of a reply

Fence == [tok |-> "fence"]
JsonTag == [tok |-> "json"]
\* white space JSON allows (space, tab, line feed, carriage return)
Space == [tok |-> "space"]
\* white space that \s and trim() cover and JSON does not allow (U+00A0,
\* form feed, ...)
Nbsp == [tok |-> "nbsp"]
WhiteSpace == {Space, Nbsp}
Prose == [tok |-> "prose"]
jsonText(value) == [tok |-> "value", value |-> value]

\* JSON values the model may reply with: a full result, an object with one
\* of the expected properties, an object claiming damage without listing
\* any, and null
DamagedReply == [f \in DOMAIN DamagedBody \ {"annotatedImage"} |-> DamagedBody[f]]
ShortReply == [hasVehicle |-> FALSE]
HalfReply == [hasVehicle |-> TRUE, hasDamage |-> TRUE]
ReplyValues == {DamagedReply, ShortReply, HalfReply, Null}

Tokens == {Fence, JsonTag, Space, Nbsp, Prose} \cup {jsonText(v) : v \in ReplyValues}

\* analysisData.choices?.[0]?.message?.content: undefined or a text
Replies == {NoReply} \cup {[present |-> TRUE, text |-> t] : t \in SeqsUpTo(Tokens, MaxTokens)}

fencesOf(text) == {p \in 1..Len(text) : text[p] = Fence}

\* \s* : the position after the white space starting at from
RECURSIVE skipSpace(_, _, _)
skipSpace(text, from, to) ==
  IF from < to /\ text[from] \in WhiteSpace THEN skipSpace(text, from + 1, to) ELSE from

\* aiResponse.match(/```(?:json)?\s*([\s\S]*?)```/): the first fence that has
\* a fence after it, json and white space after it skipped, and the text up
\* to the next fence as the group
match(text) ==
  IF Cardinality(fencesOf(text)) < 2
  THEN [matched |-> FALSE, group |-> <<>>]
  ELSE LET p == CHOOSE x \in fencesOf(text) : \A y \in fencesOf(text) : x <= y
           q == CHOOSE x \in fencesOf(text) \ {p} : \A y \in fencesOf(text) \ {p} : x <= y
           a == IF text[p + 1] = JsonTag THEN p + 2 ELSE p + 1
           b == skipSpace(text, a, q)
       IN  [matched |-> TRUE, group |-> SubSeq(text, b, q - 1)]

RECURSIVE trimStart(_)
trimStart(text) ==
  IF text # <<>> /\ Head(text) \in WhiteSpace THEN trimStart(Tail(text)) ELSE text

RECURSIVE trimEnd(_)
trimEnd(text) ==
  IF text # <<>> /\ text[Len(text)] \in WhiteSpace
  THEN trimEnd(SubSeq(text, 1, Len(text) - 1))
  ELSE text

\* String.prototype.trim
trim(text) == trimEnd(trimStart(text))

\* JSON.parse: the value of a text that is one JSON value with JSON white
\* space around it, an exception for any other text
JSONparse(text) ==
  LET values == {p \in 1..Len(text) : text[p].tok = "value"}
  IN  IF Cardinality(values) = 1 /\ \A p \in 1..Len(text) : p \in values \/ text[p] = Space
      THEN [ok |-> TRUE, value |-> text[CHOOSE p \in values : TRUE].value]
      ELSE [ok |-> FALSE, value |-> Null]

\* the result substituted for a reply that cannot be parsed
fallbackResult ==
  [hasVehicle |-> FALSE, hasDamage |-> FALSE, overallSeverity |-> "None",
   confidenceScore |-> 0, damages |-> <<>>, affectedAreas |-> <<>>,
   estimatedRepairCost |-> [min |-> 0, max |-> 0, currency |-> "USD"],
   recommendations |-> <<"Unable to analyze image. Please try with a clearer image.">>,
   summary |-> "Could not process the image. Please upload a clear image."]

\* mutant of parseReply: no result is substituted, analysisResult stays
\* without a value
parseReplyNoFallback(reply) ==
  IF ~reply.present THEN Null
  ELSE LET jsonMatch == match(reply.text)
           jsonStr == IF jsonMatch.matched THEN trim(jsonMatch.group) ELSE reply.text
           parsed == JSONparse(jsonStr)
       IN  IF parsed.ok THEN parsed.value ELSE Null

\* the try / catch that sets analysisResult: aiResponse.match throws for an
\* undefined content, JSON.parse for a text that is not JSON
parseReply(reply) ==
  IF ~reply.present THEN fallbackResult
  ELSE LET jsonMatch == match(reply.text)
           jsonStr == IF jsonMatch.matched THEN trim(jsonMatch.group) ELSE reply.text
           parsed == JSONparse(jsonStr)
       IN  IF parsed.ok THEN parsed.value ELSE fallbackResult

\* a property of an object read as a condition
truthy(obj, field) == Has(obj, field) /\ obj[field] = TRUE

errorResponse(status, message) == [status |-> status, body |-> [error |-> message]]

\* new Response(JSON.stringify({ ...analysisResult, annotatedImage }))
resultResponse(analysisResult, annotatedImage) ==
  [status |-> 200, body |-> Spread(analysisResult, [annotatedImage |-> annotatedImage])]

respond(h, response) == [h EXCEPT !.pc = "responded", !.response = response]

\* a request arrives and is handled up to the first fetch: body tells
\* whether req.json() throws, gives no imageBase64 or gives one, keySet
\* whether LOVABLE_API_KEY is configured
serve(method, body, keySet) ==
  /\ handler.pc = "idle"
  /\ handler' =
       IF method = "OPTIONS"
       THEN respond(IdleHandler, [status |-> 200, body |-> Null])
       ELSE IF body = "invalid"
       THEN respond(IdleHandler, errorResponse(500, "Unexpected end of JSON input"))
       ELSE IF body = "empty"
       THEN respond(IdleHandler, errorResponse(400, "No image provided"))
       ELSE IF ~keySet
       THEN respond(IdleHandler, errorResponse(500, "LOVABLE_API_KEY is not configured"))
       ELSE [IdleHandler EXCEPT !.pc = "analysis", !.requests = <<"analysis">>]
  /\ UNCHANGED <<mediaVars, resultVars, flagVars, progressVars, toast, procVars,
                 aggInput, aggImages, aggFrames>>

\* the errors thrown by a rejected fetch and by Response.json() on a body
\* that is not JSON
FetchFailed == [isError |-> TRUE, message |-> "fetch failed"]
UnreadableBody ==
  [isError |-> TRUE, message |-> "Unexpected token 'o', \"not json\" is not valid JSON"]

\* error instanceof Error ? error.message : 'An unexpected error occurred'
errorMessage(error) ==
  IF error.isError THEN error.message ELSE "An unexpected error occurred"

\* the analysis fetch settles: outcome is the status of the gateway's
\* response, "throw" for a rejected fetch or "unreadable" for a 200 whose
\* body is not JSON, reply the content of the model's message
analysisFetched(outcome, reply) ==
  /\ handler.pc = "analysis"
  /\ handler' =
       IF outcome = "429"
       THEN respond(handler, errorResponse(429, "Rate limit exceeded. Please try again later."))
       ELSE IF outcome = "402"
       THEN respond(handler, errorResponse(402, "AI credits exhausted. Please add more credits."))
       ELSE IF outcome = "500"
       THEN respond(handler, errorResponse(500, "AI Gateway error: 500"))
       ELSE IF outcome = "throw"
       THEN respond(handler, errorResponse(500, errorMessage(FetchFailed)))
       ELSE IF outcome = "unreadable"
       THEN respond(handler, errorResponse(500, errorMessage(UnreadableBody)))
       ELSE LET analysisResult == parseReply(reply)
                h == [handler EXCEPT !.replied = TRUE, !.reply = reply,
                                     !.analysisResult = analysisResult]
                typeError == respond(h, errorResponse(500, "Cannot read properties"))
            IN  IF analysisResult = Null
                THEN typeError
                ELSE IF truthy(analysisResult, "hasVehicle") /\ truthy(analysisResult, "hasDamage")
                THEN IF ~Has(analysisResult, "damages")
                     THEN typeError
                     ELSE IF Len(analysisResult.damages) > 0
                     THEN IF \E k \in 1..Len(analysisResult.damages) :
                               ~Has(analysisResult.damages[k], "severity")
                          THEN typeError
                          ELSE [h EXCEPT !.pc = "annotation",
                                         !.requests = Append(@, "annotation")]
                     ELSE respond(h, resultResponse(analysisResult, NoUrl))
                ELSE respond(h, resultResponse(analysisResult, NoUrl))
  /\ UNCHANGED <<mediaVars, resultVars, flagVars, progressVars, toast, procVars,
                 aggInput, aggImages, aggFrames>>

\* the annotation fetch settles: with an image, without one, with a status
\* that is not ok, or rejected
annotationFetched(outcome) ==
  /\ handler.pc = "annotation"
  /\ handler' = respond(handler,
                        resultResponse(handler.analysisResult,
                                       IF outcome = "image" THEN 9 ELSE NoUrl))
  /\ UNCHANGED <<mediaVars, resultVars, flagVars, progressVars, toast, procVars,
                 aggInput, aggImages, aggFrames>>

HandlerNext ==
  \/ \E method \in {"OPTIONS", "POST"}, body \in {"invalid", "empty", "image"},
        keySet \in BOOLEAN : serve(method, body, keySet)
  \/ \E reply \in Replies : analysisFetched("200", reply)
  \/ \E outcome \in {"429", "402", "500", "throw", "unreadable"} :
        analysisFetched(outcome, NoReply)
  \/ \E outcome \in {"image", "noImage", "notOk", "throw"} : annotationFetched(outcome)

HandlerSpec == Init /\ [][HandlerNext]_vars

(***************************************************************************)
(* Success bodies of the function beyond the ones above.                   *)
(***************************************************************************)
MinorScratchBody ==
  [hasVehicle |-> TRUE, hasDamage |-> TRUE, overallSeverity |-> "Minor",
   confidenceScore |-> 90,
   damages |-> <<[type |-> "scratch", location |-> "door", severity |-> "Minor",
                  description |-> "scratch on the door"]>>,
   affectedAreas |-> <<"door">>,
   estimatedRepairCost |-> [min |-> 5000, max |-> 25000, currency |-> "INR"],
   recommendations |-> <<"polish the panel">>,
   summary |-> "minor damage", annotatedImage |-> 9]

SevereDentBody ==
  [hasVehicle |-> TRUE, hasDamage |-> TRUE, overallSeverity |-> "Severe",
   confidenceScore |-> 85,
   damages |-> <<[type |-> "dent", location |-> "hood", severity |-> "Severe",
                  description |-> "deep dent on the hood"]>>,
   affectedAreas |-> <<"hood">>,
   estimatedRepairCost |-> [min |-> 25000, max |-> 100000, currency |-> "INR"],
   recommendations |-> <<"visit a body shop">>,
   summary |-> "severe damage", annotatedImage |-> NoUrl]

\* two damages, no cost and no recommendations property
TwoDamagesBody ==
  [hasVehicle |-> TRUE, hasDamage |-> TRUE, overallSeverity |-> "Moderate",
   confidenceScore |-> 70,
   damages |-> <<[type |-> "scratch", location |-> "door", severity |-> "Minor",
                  description |-> "scratch on the door"],
                 [type |-> "dent", location |-> "door", severity |-> "Moderate",
                  description |-> "dent on the door"]>>,
   affectedAreas |-> <<"door", "hood">>,
   summary |-> "two damages", annotatedImage |-> NoUrl]

\* the body sent for a reply that cannot be parsed
FallbackBody == resultResponse(fallbackResult, NoUrl).body

\* a cost range with min above max and an empty currency
InvertedCostBody ==
  [hasVehicle |-> TRUE, hasDamage |-> TRUE, overallSeverity |-> "Minor",
   confidenceScore |-> 75,
   damages |-> <<[type |-> "rust", location |-> "door", severity |-> "Minor",
                  description |-> "rust on the door"]>>,
   affectedAreas |-> <<"door">>,
   estimatedRepairCost |-> [min |-> 30000, max |-> 10000, currency |-> ""],
   recommendations |-> <<"visit a body shop", "polish the panel">>,
   summary |-> "rust", annotatedImage |-> NoUrl]

\* a cost with only an upper bound
PartialCostBody ==
  [hasVehicle |-> TRUE, hasDamage |-> FALSE, overallSeverity |-> "None",
   confidenceScore |-> 60, damages |-> <<>>, affectedAreas |-> <<"hood">>,
   estimatedRepairCost |-> [max |-> 8000],
   recommendations |-> <<>>,
   summary |-> "unsure", annotatedImage |-> NoUrl]

\* the body sent for a reply that is an object without a damages array
BareBody == resultResponse(ShortReply, NoUrl).body

\* the success bodies, the kinds a batch has to tell apart first: damage
\* listed, damage claimed and not listed, no damage, a second damage record,
\* the substituted result, an object without the expected properties
BodyList == <<DamagedBody, ListlessBody, CleanBody, MinorScratchBody, FallbackBody, BareBody,
              SevereDentBody, TwoDamagesBody, InvertedCostBody, PartialCostBody>>

\* the success bodies the function sends in the component specification
Bodies == {BodyList[k] : k \in 1..(IF MaxBodies < Len(BodyList) THEN MaxBodies
                                    ELSE Len(BodyList))}

\* { data, error } returned by supabase.functions.invoke, or a thrown invocation
Responses ==
  {[kind |-> "ok", data |-> b] : b \in Bodies}
  \cup {[kind |-> "error"],                                        \* error set
        [kind |-> "bodyError", data |-> [error |-> "failed"]],     \* data.error set
        [kind |-> "throw"]}                                        \* invoke throws

\* data && !data.error
accepted(resp) == resp.kind = "ok"

(***************************************************************************)
(* Media ingestion.                                                        *)
(***************************************************************************)
\* mutant of classify: a single file that is no video is read as an image
classifyAnySingleFile(files) ==
  IF Len(files) = 1
  THEN IF startsWith(files[1].type, "video")
       THEN <<[kind |-> "video", files |-> files, images |-> <<>>]>>
       ELSE <<[kind |-> "image", files |-> files, images |-> <<>>]>>
  ELSE IF Len(files) > 1
       THEN LET imageFiles == filterImages(files)
            IN  IF Len(imageFiles) > 0
                THEN <<[kind |-> "multi", files |-> imageFiles, images |-> <<>>]>>
                ELSE <<>>
       ELSE <<>>

\* the FileReader passes started for a list of files (handleDrop 80-94,
\* handleFileSelect 98-112)
classify(files) ==
  IF Len(files) = 1
  THEN IF startsWith(files[1].type, "image")
       THEN <<[kind |-> "image", files |-> files, images |-> <<>>]>>
       ELSE IF startsWith(files[1].type, "video")
            THEN <<[kind |-> "video", files |-> files, images |-> <<>>]>>
            ELSE <<>>
  ELSE IF Len(files) > 1
       THEN LET imageFiles == filterImages(files)
            IN  IF Len(imageFiles) > 0
                THEN <<[kind |-> "multi", files |-> imageFiles, images |-> <<>>]>>
                ELSE <<>>
       ELSE <<>>

\* onDragOver of the drop zone: the zone is highlighted
onDragOver ==
  /\ View = "upload"
  /\ isDragOver' = TRUE
  /\ UNCHANGED <<mediaVars, resultVars, analysisFlags, progressVars, toast, procVars, aggVars>>

\* onDragLeave of the drop zone
onDragLeave ==
  /\ View = "upload"
  /\ isDragOver' = FALSE
  /\ UNCHANGED <<mediaVars, resultVars, analysisFlags, progressVars, toast, procVars, aggVars>>

\* onDrop of the drop zone: the highlight is taken back before the files are
\* looked at, whatever they are
handleDrop(files) ==
  /\ View = "upload"
  /\ Len(readers) < MaxPending
  /\ uploads < MaxUploads
  /\ isDragOver' = FALSE
  /\ readers' = readers \o classify(files)
  /\ uploads' = uploads + Len(classify(files))
  /\ UNCHANGED <<mediaVars, resultVars, analysisFlags, progressVars, toast,
                 submitted, extraction, single, imagesRun, framesRun, aggVars>>

handleFileSelect(files) ==
  /\ View = "upload"
  /\ Len(readers) < MaxPending
  /\ uploads < MaxUploads
  /\ readers' = readers \o classify(files)
  /\ uploads' = uploads + Len(classify(files))
  /\ UNCHANGED <<mediaVars, resultVars, flagVars, progressVars, toast,
                 submitted, extraction, single, imagesRun, framesRun, aggVars>>

RemoveAt(s, j) == SubSeq(s, 1, j - 1) \o SubSeq(s, j + 1, Len(s))

\* reader.onload of processImageFile
processImageFile(j) ==
  /\ readers[j].kind = "image"
  /\ uploadedImage' = readers[j].files[1].url
  /\ uploadedImages' = <<>>
  /\ uploadedVideo' = NoUrl
  /\ videoFrames' = <<>>
  /\ mediaType' = "image"
  /\ results' = Null
  /\ resultsOf' = NoUrl
  /\ combinedResults' = Null
  /\ readers' = RemoveAt(readers, j)
  /\ extraction' = unmount(extraction)
  /\ UNCHANGED <<uploads, submitted, selectedFrameIndex, selectedImageIndex, flagVars,
                 progressVars, toast, single, imagesRun, framesRun, aggVars>>

\* reader.onload of processVideoFile
processVideoFile(j) ==
  /\ readers[j].kind = "video"
  /\ uploadedVideo' = readers[j].files[1].url
  /\ uploadedImage' = NoUrl
  /\ uploadedImages' = <<>>
  /\ videoFrames' = <<>>
  /\ mediaType' = "video"
  /\ results' = Null
  /\ resultsOf' = NoUrl
  /\ combinedResults' = Null
  /\ readers' = RemoveAt(readers, j)
  /\ UNCHANGED <<uploads, submitted, selectedFrameIndex, selectedImageIndex, flagVars,
                 progressVars, toast, extraction, single, imagesRun, framesRun, aggVars>>

\* one reader.onload of processMultipleImages; the last one is followed by
\* the state updates of lines 141-153
processMultipleImages(j) ==
  /\ readers[j].kind = "multi"
  /\ LET r == readers[j]
         images == Append(r.images, r.files[Len(r.images) + 1].url)
     IN  IF Len(images) < Len(r.files)
         THEN /\ readers' = [readers EXCEPT ![j].images = images]
              /\ UNCHANGED <<mediaVars, resultVars, toast, extraction>>
         ELSE /\ uploadedImages' = images
              /\ uploadedImage' = images[1]
              /\ selectedImageIndex' = 0
              /\ uploadedVideo' = NoUrl
              /\ videoFrames' = <<>>
              /\ mediaType' = "multi-image"
              /\ results' = Null
              /\ resultsOf' = NoUrl
              /\ combinedResults' = Null
              /\ toast' = notice("Images Uploaded", "default")
              /\ readers' = RemoveAt(readers, j)
              /\ extraction' = unmount(extraction)
              /\ UNCHANGED selectedFrameIndex
  /\ UNCHANGED <<uploads, submitted, flagVars, progressVars, single, imagesRun, framesRun, aggVars>>

clearMedia ==
  /\ View # "upload"
  /\ uploadedImage' = NoUrl
  /\ uploadedImages' = <<>>
  /\ uploadedVideo' = NoUrl
  /\ videoFrames' = <<>>
  /\ mediaType' = "null"
  /\ results' = Null
  /\ resultsOf' = NoUrl
  /\ combinedResults' = Null
  /\ extraction' = unmount(extraction)
  /\ UNCHANGED <<selectedFrameIndex, selectedImageIndex, flagVars, progressVars, toast,
                 readers, uploads, submitted, single, imagesRun, framesRun, aggVars>>

selectFrame(index) ==
  /\ View = "frames"
  /\ index \in 0..(Len(videoFrames) - 1)
  /\ selectedFrameIndex' = index
  /\ uploadedImage' = videoFrames[index + 1]
  /\ results' = Null
  /\ resultsOf' = NoUrl
  /\ combinedResults' = Null
  /\ UNCHANGED <<uploadedImages, uploadedVideo, videoFrames, selectedImageIndex, mediaType,
                 flagVars, progressVars, toast, procVars, aggVars>>

selectImage(index) ==
  /\ View = "multi"
  /\ index \in 0..(Len(uploadedImages) - 1)
  /\ selectedImageIndex' = index
  /\ uploadedImage' = uploadedImages[index + 1]
  /\ results' = Null
  /\ resultsOf' = NoUrl
  /\ combinedResults' = Null
  /\ UNCHANGED <<uploadedImages, uploadedVideo, videoFrames, selectedFrameIndex, mediaType,
                 flagVars, progressVars, toast, procVars, aggVars>>

(***************************************************************************)
(* Single-unit analysis (analyzeImage).                                    *)
(***************************************************************************)
\* disabled attribute of the single-unit trigger in the rendered branch
singleDisabled ==
  IF View = "frames" THEN isAnalyzing \/ isAnalyzingAllFrames
  ELSE IF View = "multi" THEN isAnalyzing \/ isAnalyzingAllImages
  ELSE isAnalyzing

singleEnabled == View \in {"frames", "multi", "single"} /\ ~singleDisabled

analyzeImage ==
  /\ singleEnabled
  /\ submitted + 1 <= MaxSubmitted
  /\ submitted' = submitted + 1
  /\ uploadedImage # NoUrl
  /\ isAnalyzing' = TRUE
  /\ single' = [pc |-> "await", image |-> uploadedImage]
  /\ UNCHANGED <<mediaVars, resultVars, isDragOver, isExtractingFrames, isAnalyzingAllFrames,
                 isAnalyzingAllImages, progressVars, toast, readers, uploads, extraction,
                 imagesRun, framesRun, aggVars>>

\* mutant of singleStores: a body with an error field is stored too
singleStoresBodyError(resp) == resp.kind \in {"ok", "bodyError"}

\* neither `if (error) throw error` nor `if (data.error) throw` fires
singleStores(resp) == resp.kind = "ok"

\* building the description of the "Analysis Complete" toast throws:
\* data.hasDamage is truthy and data.damages, whose length is read, is missing
toastThrows(data) == Has(data, "hasDamage") /\ data.hasDamage = TRUE /\ ~Has(data, "damages")

\* the continuation of analyzeImage after the await (lines 505-529)
analyzeImageResume(resp) ==
  /\ single.pc = "await"
  /\ IF singleStores(resp)
     THEN /\ results' = resp.data
          /\ resultsOf' = single.image
          /\ toast' = IF toastThrows(resp.data)
                      THEN \* thrown after setResults, caught at line 522
                           notice("Analysis Failed", "destructive")
                      ELSE notice("Analysis Complete", "default")
     ELSE /\ toast' = notice("Analysis Failed", "destructive")
          /\ UNCHANGED <<results, resultsOf>>
  /\ isAnalyzing' = FALSE
  /\ single' = IdleSingle
  /\ UNCHANGED <<mediaVars, combinedResults, isDragOver, isExtractingFrames,
                 isAnalyzingAllFrames,
                 isAnalyzingAllImages, progressVars, readers, uploads, submitted, extraction,
                 imagesRun, framesRun, aggVars>>

(***************************************************************************)
(* Batch analysis (analyzeAllImages, analyzeAllFrames).  A run record      *)
(* holds the locals of the call: units is the list the closure captured,   *)
(* i the loop index, unitResults the imageResults / frameResults array.    *)
(* issued and log record the requests made and the responses received.     *)
(* When the call returns its locals are gone: the record is IdleRun again. *)
(***************************************************************************)
\* { ...data, frameIndex: i, frameImage: units[i] }
tagUnit(data, i, units) == Spread(data, [frameIndex |-> i, frameImage |-> units[i + 1]])

\* the array after the response for unit i was handled
pushResult(unitResults, resp, i, units) ==
  IF accepted(resp) THEN Append(unitResults, tagUnit(resp.data, i, units)) ELSE unitResults

\* mutant of nextIndex: a unit that returned an error is requested again
nextIndexRetry(i, resp) == IF resp.kind = "error" THEN i ELSE i + 1

\* the loop index after the response for unit i was handled (i++)
nextIndex(i, resp) == i + 1

\* analysisProgress after the response for unit i of total units: the
\* `continue` of the error branch skips setAnalysisProgress
progressAfter(current, resp, i, total) ==
  IF resp.kind = "error" THEN current ELSE percent(i + 1, total)

\* the locals of a batch call that has just issued the request for unit 0
startRun(units) ==
  [pc |-> "await", units |-> units, i |-> 0, unitResults |-> <<>>,
   issued |-> <<0>>, log |-> <<>>, ended |-> "none"]

\* the locals after the response to the pending request; ended tells how the
\* call returns: "exception" through the catch block, "allFailed" at the
\* return of the empty check, "report" after the aggregator was applied
\* mutant of emptyCheck: the test left out
emptyCheckOff(unitResults) == FALSE

\* imageResults.length === 0 (lines 277, 404)
emptyCheck(unitResults) == Len(unitResults) = 0

resumeRun(run, resp) ==
  LET log == Append(run.log, resp)
      unitResults == pushResult(run.unitResults, resp, run.i, run.units)
      i == nextIndex(run.i, resp)
  IN  IF resp.kind = "throw"
      THEN [run EXCEPT !.pc = "done", !.log = log, !.ended = "exception"]
      ELSE IF i < Len(run.units)
      THEN [run EXCEPT !.i = i, !.unitResults = unitResults, !.log = log,
                       !.issued = Append(@, i)]
      ELSE IF emptyCheck(unitResults)
      THEN [run EXCEPT !.pc = "done", !.unitResults = unitResults, !.log = log,
                       !.ended = "allFailed"]
      ELSE [run EXCEPT !.pc = "done", !.unitResults = unitResults, !.log = log,
                       !.ended = "report"]

\* the "Analyze All Images" trigger is rendered and not disabled
allImagesEnabled == View = "multi" /\ ~(isAnalyzingAllImages \/ isAnalyzing)

analyzeAllImages ==
  /\ allImagesEnabled
  /\ submitted + Len(uploadedImages) <= MaxSubmitted
  /\ submitted' = submitted + Len(uploadedImages)
  /\ Len(uploadedImages) # 0
  /\ isAnalyzingAllImages' = TRUE
  /\ analysisProgress' = ZeroProgress
  /\ currentAnalyzingFrame' = 1
  /\ combinedResults' = Null
  /\ results' = Null
  /\ resultsOf' = NoUrl
  /\ imagesRun' = startRun(uploadedImages)
  /\ UNCHANGED <<mediaVars, isDragOver, isExtractingFrames, isAnalyzing,
                 isAnalyzingAllFrames, toast,
                 readers, uploads, extraction, single, framesRun, aggVars>>

analyzeAllImagesResume(resp) ==
  /\ imagesRun.pc = "await"
  /\ LET next == resumeRun(imagesRun, resp)
     IN  /\ imagesRun' = IF next.pc = "await" THEN next ELSE IdleRun
         /\ IF next.pc = "await"
            THEN /\ currentAnalyzingFrame' = next.i + 1
                 /\ analysisProgress' =
                      progressAfter(analysisProgress, resp, imagesRun.i, Len(imagesRun.units))
                 /\ UNCHANGED <<isAnalyzingAllImages, combinedResults, toast>>
            ELSE /\ isAnalyzingAllImages' = FALSE
                 /\ analysisProgress' = ZeroProgress
                 /\ currentAnalyzingFrame' = 0
                 /\ LET combined == IF next.ended = "report"
                                     THEN combineImageResults(next.unitResults)
                                     ELSE TypeError
                    IN  \* an exception of the aggregator is caught like any other
                        IF combined # TypeError
                        THEN /\ combinedResults' = combined
                             /\ toast' = notice("Comprehensive Analysis Complete", "default")
                        ELSE /\ toast' = notice("Analysis Failed", "destructive")
                             /\ UNCHANGED combinedResults
  /\ UNCHANGED <<mediaVars, results, resultsOf, isDragOver, isExtractingFrames, isAnalyzing,
                 isAnalyzingAllFrames, readers, uploads, submitted, extraction, single, framesRun, aggVars>>

\* the "Analyze All Frames" trigger is rendered and not disabled
allFramesEnabled == View = "frames" /\ ~(isAnalyzingAllFrames \/ isAnalyzing)

analyzeAllFrames ==
  /\ allFramesEnabled
  /\ submitted + Len(videoFrames) <= MaxSubmitted
  /\ submitted' = submitted + Len(videoFrames)
  /\ Len(videoFrames) # 0
  /\ isAnalyzingAllFrames' = TRUE
  /\ analysisProgress' = ZeroProgress
  /\ currentAnalyzingFrame' = 1
  /\ combinedResults' = Null
  /\ results' = Null
  /\ resultsOf' = NoUrl
  /\ framesRun' = startRun(videoFrames)
  /\ UNCHANGED <<mediaVars, isDragOver, isExtractingFrames, isAnalyzing,
                 isAnalyzingAllImages, toast,
                 readers, uploads, extraction, single, imagesRun, aggVars>>

analyzeAllFramesResume(resp) ==
  /\ framesRun.pc = "await"
  /\ LET next == resumeRun(framesRun, resp)
     IN  /\ framesRun' = IF next.pc = "await" THEN next ELSE IdleRun
         /\ IF next.pc = "await"
            THEN /\ currentAnalyzingFrame' = next.i + 1
                 /\ analysisProgress' =
                      progressAfter(analysisProgress, resp, framesRun.i, Len(framesRun.units))
                 /\ UNCHANGED <<isAnalyzingAllFrames, combinedResults, toast>>
            ELSE /\ isAnalyzingAllFrames' = FALSE
                 /\ analysisProgress' = ZeroProgress
                 /\ currentAnalyzingFrame' = 0
                 /\ LET combined == IF next.ended = "report"
                                     THEN combineFrameResults(next.unitResults)
                                     ELSE TypeError
                    IN  \* an exception of the aggregator is caught like any other
                        IF combined # TypeError
                        THEN /\ combinedResults' = combined
                             /\ toast' = notice("Comprehensive Analysis Complete", "default")
                        ELSE /\ toast' = notice("Analysis Failed", "destructive")
                             /\ UNCHANGED combinedResults
  /\ UNCHANGED <<mediaVars, results, resultsOf, isDragOver, isExtractingFrames, isAnalyzing,
                 isAnalyzingAllImages, readers, uploads, submitted, extraction, single, imagesRun, aggVars>>

(***************************************************************************)
(* Frame extraction (extractFramesFromVideo).                              *)
(***************************************************************************)
MaxFrames == 6

\* Math.ceil(duration), the duration given in tenths of a second
ceilSeconds(duration) == (duration + 9) \div 10

\* Math.min(6, Math.ceil(duration))
frameCountOf(duration) ==
  IF ceilSeconds(duration) < MaxFrames THEN ceilSeconds(duration) ELSE MaxFrames

\* video.duration of the element showing the video, in tenths of a second:
\* NaN as long as the metadata of the video are not loaded
durationOf(video, metadataLoaded) ==
  IF metadataLoaded THEN [tenths |-> (CHOOSE f \in FileSet : f.url = video).duration]
  ELSE NaN

\* a position of the video that is no sample time of a pass
UserPosition == 9

\* the positions a seek through the controls of the video can leave it at:
\* the sample times of the pass and a position between them
userPositions(frameCount) == 0..(frameCount - 1) \cup {UserPosition}

\* canvas.toDataURL after drawing the video at a position: sample i of the
\* pass, or the position the user chose
toDataURL(video, position) == video * 10 + position

\* the seeks through the controls a pass has seen
seeksAfter(seeks, byUser) == IF byUser THEN seeks + 1 ELSE seeks

\* the click on "Extract Frames": ctxOk is whether getContext('2d') gives a
\* context, seekThrows whether assigning video.currentTime throws,
\* metadataLoaded whether the video element knows the duration
extractFramesFromVideo(ctxOk, seekThrows, metadataLoaded) ==
  /\ View = "video"
  /\ ~isExtractingFrames
  /\ uploadedVideo # NoUrl
  /\ LET duration == durationOf(uploadedVideo, metadataLoaded) IN
     IF ~ctxOk
     THEN /\ toast' = notice("Error", "destructive")
          /\ UNCHANGED <<isExtractingFrames, extraction, videoFrames, selectedFrameIndex,
                         uploadedImage>>
     ELSE IF duration = NaN \/ frameCountOf(duration.tenths) = 0
     THEN \* no iteration: 0 < frameCount is false for 0 and for
          \* Math.min(6, Math.ceil(NaN)) = NaN
          /\ videoFrames' = <<>>
          /\ selectedFrameIndex' = 0
          /\ uploadedImage' = NoUrl
          /\ toast' = notice("Frames Extracted", "default")
          /\ UNCHANGED <<isExtractingFrames, extraction>>
     ELSE IF seekThrows
     THEN /\ toast' = notice("Extraction Failed", "destructive")
          /\ UNCHANGED <<isExtractingFrames, extraction, videoFrames, selectedFrameIndex,
                         uploadedImage>>
     ELSE /\ isExtractingFrames' = TRUE
          /\ extraction' = [pc |-> "seeking", video |-> uploadedVideo,
                            duration |-> duration.tenths,
                            frameCount |-> frameCountOf(duration.tenths),
                            i |-> 0, frames |-> <<>>, mounted |-> TRUE, seeks |-> 0]
          /\ UNCHANGED <<toast, videoFrames, selectedFrameIndex, uploadedImage>>
  /\ UNCHANGED <<uploadedImages, uploadedVideo, selectedImageIndex, mediaType,
                 resultVars, isDragOver, isAnalyzing, isAnalyzingAllFrames,
                 isAnalyzingAllImages,
                 progressVars, readers, uploads, submitted, single, imagesRun, framesRun, aggVars>>

\* video.onseeked of sample i and what follows it: drawOk is whether the
\* handler's draw and encode calls return, seekThrows whether the next
\* assignment to video.currentTime throws, byUser whether the event is that
\* of the seek the pass made or of a seek made through the controls,
\* position where the video stands when the handler draws it
onseeked(drawOk, seekThrows, byUser, position) ==
  /\ IF byUser
     THEN \* the handler is installed, also after it threw, on the element
          \* the pass holds: the controls reach it while that element is shown
          /\ extraction.pc \in {"seeking", "stuck"} /\ extraction.mounted
          /\ extraction.seeks < MaxSeeks
          /\ position \in userPositions(extraction.frameCount)
     ELSE extraction.pc = "seeking" /\ position = extraction.i
  /\ IF ~drawOk
     THEN \* the exception leaves the handler, the awaited promise is not
          \* settled by this event
          /\ extraction' = [extraction EXCEPT !.pc = "stuck",
                                              !.seeks = seeksAfter(@, byUser)]
          /\ UNCHANGED <<isExtractingFrames, toast, videoFrames, selectedFrameIndex,
                         uploadedImage>>
     ELSE LET frames == Append(extraction.frames, toDataURL(extraction.video, position))
              i == extraction.i + 1
          IN  IF i < extraction.frameCount
              THEN IF seekThrows
                   THEN /\ toast' = notice("Extraction Failed", "destructive")
                        /\ isExtractingFrames' = FALSE
                        /\ extraction' = IdleExtraction
                        /\ UNCHANGED <<videoFrames, selectedFrameIndex, uploadedImage>>
                   ELSE /\ extraction' = [extraction EXCEPT !.pc = "seeking", !.i = i,
                                                            !.frames = frames,
                                                            !.seeks = seeksAfter(@, byUser)]
                        /\ UNCHANGED <<isExtractingFrames, toast, videoFrames,
                                       selectedFrameIndex, uploadedImage>>
              ELSE /\ videoFrames' = frames
                   /\ selectedFrameIndex' = 0
                   /\ uploadedImage' = frames[1]
                   /\ toast' = notice("Frames Extracted", "default")
                   /\ isExtractingFrames' = FALSE
                   /\ extraction' = IdleExtraction
  /\ UNCHANGED <<uploadedImages, uploadedVideo, selectedImageIndex, mediaType,
                 resultVars, isDragOver, isAnalyzing, isAnalyzingAllFrames,
                 isAnalyzingAllImages,
                 progressVars, readers, uploads, submitted, single, imagesRun, framesRun, aggVars>>

(***************************************************************************)
(* Report downloads (downloadPDF, downloadCombinedPDF): no await between   *)
(* the "Generating PDF" toast and the toast that ends the call.  pdfOk is  *)
(* whether jsPDF builds and saves the document without throwing.           *)
(***************************************************************************)
pdfNotice(pdfOk) ==
  IF pdfOk THEN notice("PDF Downloaded", "default")
  ELSE notice("PDF Generation Failed", "destructive")

\* the single-unit report with its download button is rendered
singleReportShown ==
  /\ combinedResults = Null
  /\ results # Null
  /\ Has(results, "hasVehicle") /\ results.hasVehicle = TRUE
  /\ Has(results, "hasDamage") /\ results.hasDamage = TRUE

downloadPDF(pdfOk) ==
  /\ singleReportShown
  /\ uploadedImage # NoUrl
  /\ toast' = pdfNotice(pdfOk)
  /\ UNCHANGED <<mediaVars, resultVars, flagVars, progressVars, procVars, aggVars>>

downloadCombinedPDF(pdfOk) ==
  /\ combinedResults # Null
  /\ toast' = pdfNotice(pdfOk)
  /\ UNCHANGED <<mediaVars, resultVars, flagVars, progressVars, procVars, aggVars>>

(***************************************************************************)
(* The component.                                                          *)
(***************************************************************************)
Next ==
  \/ onDragOver
  \/ onDragLeave
  \/ \E files \in FileLists : handleDrop(files)
  \/ \E files \in FileLists : handleFileSelect(files)
  \/ \E j \in 1..Len(readers) : processImageFile(j)
  \/ \E j \in 1..Len(readers) : processVideoFile(j)
  \/ \E j \in 1..Len(readers) : processMultipleImages(j)
  \/ clearMedia
  \/ \E index \in 0..(MaxFrames - 1) : selectFrame(index)
  \/ \E index \in 0..MaxFiles : selectImage(index)
  \/ \E ctxOk, seekThrows, metadataLoaded \in BOOLEAN :
        extractFramesFromVideo(ctxOk, seekThrows, metadataLoaded)
  \/ \E drawOk, seekThrows, byUser \in BOOLEAN, position \in userPositions(MaxFrames) :
        onseeked(drawOk, seekThrows, byUser, position)
  \/ analyzeImage
  \/ \E resp \in Responses : analyzeImageResume(resp)
  \/ analyzeAllImages
  \/ \E resp \in Responses : analyzeAllImagesResume(resp)
  \/ analyzeAllFrames
  \/ \E resp \in Responses : analyzeAllFramesResume(resp)
  \/ \E pdfOk \in BOOLEAN : downloadPDF(pdfOk)
  \/ \E pdfOk \in BOOLEAN : downloadCombinedPDF(pdfOk)

Spec == Init /\ [][Next]_vars

(***************************************************************************)
(* The aggregators on their own: the input is the unitResults array a      *)
(* batch builds from a list of responses, one of the two aggregators is    *)
(* applied to it.                                                          *)
(***************************************************************************)
AggBodies == {CleanBody, DamagedBody, MinorScratchBody, SevereDentBody, TwoDamagesBody,
              FallbackBody, InvertedCostBody, PartialCostBody, BareBody}

AggResponses == {[kind |-> "ok", data |-> b] : b \in AggBodies} \cup {[kind |-> "error"]}

\* the unitResults array of a batch over images 1..Len(resps) answered by resps
RECURSIVE collectResults(_, _, _)
collectResults(resps, i, unitResults) ==
  IF i = Len(resps) THEN unitResults
  ELSE collectResults(resps, i + 1,
                      pushResult(unitResults, resps[i + 1], i, [k \in 1..Len(resps) |-> k]))

AggInputs ==
  {collectResults(resps, 0, <<>>) : resps \in SeqsUpTo(AggResponses, MaxAggUnits)} \ {<<>>}

AggInit ==
  /\ uploadedImage = NoUrl
  /\ uploadedImages = <<>>
  /\ uploadedVideo = NoUrl
  /\ videoFrames = <<>>
  /\ selectedFrameIndex = 0
  /\ selectedImageIndex = 0
  /\ isExtractingFrames = FALSE
  /\ isAnalyzing = FALSE
  /\ isAnalyzingAllFrames = FALSE
  /\ isAnalyzingAllImages = FALSE
  /\ isDragOver = FALSE
  /\ analysisProgress = ZeroProgress
  /\ currentAnalyzingFrame = 0
  /\ results = Null
  /\ combinedResults = Null
  /\ mediaType = "null"
  /\ toast = NoToast
  /\ resultsOf = NoUrl
  /\ readers = <<>>
  /\ uploads = 0
  /\ submitted = 0
  /\ extraction = IdleExtraction
  /\ single = IdleSingle
  /\ imagesRun = IdleRun
  /\ framesRun = IdleRun
  /\ aggInput \in AggInputs
  /\ aggImages = Null
  /\ aggFrames = Null
  /\ handler = IdleHandler

AggCombineImages ==
  /\ aggImages = Null
  /\ aggImages' = combineImageResults(aggInput)
  /\ UNCHANGED <<mediaVars, resultVars, flagVars, progressVars, toast, procVars,
                 aggInput, aggFrames, handler>>

AggCombineFrames ==
  /\ aggFrames = Null
  /\ aggFrames' = combineFrameResults(aggInput)
  /\ UNCHANGED <<mediaVars, resultVars, flagVars, progressVars, toast, procVars,
                 aggInput, aggImages, handler>>

AggNext == AggCombineImages \/ AggCombineFrames

AggSpec == AggInit /\ [][AggNext]_vars

(***************************************************************************)
(* Properties.                                                             *)
(***************************************************************************)
activeRuns ==
  (IF isAnalyzing THEN 1 ELSE 0) + (IF isAnalyzingAllImages THEN 1 ELSE 0)
  + (IF isAnalyzingAllFrames THEN 1 ELSE 0)

\* C1: at most one of the single-unit analysis, the all-images batch and the
\* all-frames batch is in flight, and while one is in flight no analyze
\* trigger is enabled.
C1_MutualExclusion ==
  /\ activeRuns <= 1
  /\ activeRuns = 1 => ~singleEnabled /\ ~allImagesEnabled /\ ~allFramesEnabled

\* the responses of a run including the one that is being handled
fullLog(run, resp) == Append(run.log, resp)
okIndices(log) == {k \in 1..Len(log) : log[k].kind = "ok"}
noThrow(log) == \A k \in 1..Len(log) : log[k].kind # "throw"
\* the position in the log of the k-th accepted response
kthOk(log, k) ==
  CHOOSE idx \in okIndices(log) : Cardinality({j \in okIndices(log) : j <= idx}) = k

\* a step in which the analyzeAllImages / analyzeAllFrames call returns
imagesRunEnds(resp) ==
  imagesRun.pc = "await" /\ imagesRun'.pc = "idle" /\ analyzeAllImagesResume(resp)
framesRunEnds(resp) ==
  framesRun.pc = "await" /\ framesRun'.pc = "idle" /\ analyzeAllFramesResume(resp)

\* report is built from exactly the accepted units of the log, in order, each
\* with its original index and source image
reportOfAccepted(run, log, report) ==
  /\ Len(log) = Len(run.units)
  /\ report # Null
  /\ report.totalFramesAnalyzed = Cardinality(okIndices(log))
  /\ Len(report.frameResults) = Cardinality(okIndices(log))
  /\ \A k \in 1..Cardinality(okIndices(log)) :
       LET idx == kthOk(log, k)
           unit == report.frameResults[k]
       IN  /\ unit.frameIndex = idx - 1
           /\ unit.frameImage = run.units[idx]
           /\ \A f \in DOMAIN log[idx].data : unit[f] = log[idx].data[f]

\* C2: when a batch in which no invocation throws and at least one unit is
\* accepted returns, every unit was attempted and the report stored in
\* combinedResults is built from exactly the accepted units, in submission
\* order, each tagged with its original index and its source image, and its
\* totalFramesAnalyzed is their number.
C2_PartialFailureReport ==
  [][\A resp \in Responses :
       /\ (imagesRunEnds(resp) /\ noThrow(fullLog(imagesRun, resp))
             /\ okIndices(fullLog(imagesRun, resp)) # {})
          => reportOfAccepted(imagesRun, fullLog(imagesRun, resp), combinedResults')
       /\ (framesRunEnds(resp) /\ noThrow(fullLog(framesRun, resp))
             /\ okIndices(fullLog(framesRun, resp)) # {})
          => reportOfAccepted(framesRun, fullLog(framesRun, resp), combinedResults')]_vars

\* C3: when a batch in which every unit failed returns, combinedResults and
\* results are null and the failure notice is shown.
C3_AllFailedLeavesNothing ==
  [][\A resp \in Responses :
       /\ (imagesRunEnds(resp) /\ okIndices(fullLog(imagesRun, resp)) = {})
          => /\ combinedResults' = Null
             /\ results' = Null
             /\ toast' = notice("Analysis Failed", "destructive")
       /\ (framesRunEnds(resp) /\ okIndices(fullLog(framesRun, resp)) = {})
          => /\ combinedResults' = Null
             /\ results' = Null
             /\ toast' = notice("Analysis Failed", "destructive")]_vars

\* C4: when a batch with at least one accepted unit returns, every unit was
\* attempted and a report of the accepted units is stored, whether the
\* failures were error values or thrown invocations.
C4_ThrowHandledLikeError ==
  [][\A resp \in Responses :
       /\ (imagesRunEnds(resp) /\ okIndices(fullLog(imagesRun, resp)) # {})
          => /\ Len(fullLog(imagesRun, resp)) = Len(imagesRun.units)
             /\ combinedResults' # Null
       /\ (framesRunEnds(resp) /\ okIndices(fullLog(framesRun, resp)) # {})
          => /\ Len(fullLog(framesRun, resp)) = Len(framesRun.units)
             /\ combinedResults' # Null]_vars

\* C5: while a batch of N units waits for unit i (the attempts on units
\* 0..i-1 are complete) analysisProgress is i/N*100 and currentAnalyzingFrame
\* is i+1.
C5_ProgressAfterEveryUnit ==
  /\ imagesRun.pc = "await" =>
       /\ analysisProgress = percent(imagesRun.i, Len(imagesRun.units))
       /\ currentAnalyzingFrame = imagesRun.i + 1
  /\ framesRun.pc = "await" =>
       /\ analysisProgress = percent(framesRun.i, Len(framesRun.units))
       /\ currentAnalyzingFrame = framesRun.i + 1

requestsInOrder(run) ==
  run.pc = "await" =>
    /\ \A k \in 1..Len(run.issued) : run.issued[k] = k - 1
    /\ Len(run.issued) = Len(run.log) + 1
    /\ Len(run.issued) <= Len(run.units)

\* C6: within a batch run the k-th request is the one for unit k-1 (strictly
\* increasing, none twice), and a request is issued only when every earlier
\* one has been answered.
C6_SequentialNoRetry == requestsInOrder(imagesRun) /\ requestsInOrder(framesRun)

\* the request for unit 1 is pending after unit 0 returned an error
C6_Witness ==
  /\ imagesRun.pc = "await"
  /\ imagesRun.issued = <<0, 1>>
  /\ imagesRun.log[1].kind = "error"

currentMedia == ({uploadedImage} \cup Range(uploadedImages) \cup Range(videoFrames)) \ {NoUrl}

\* C7: a visible result was computed from the media that are loaded now.
C7_NoResultOfEarlierMedia ==
  /\ results # Null => resultsOf \in currentMedia
  /\ combinedResults # Null =>
       \A k \in 1..Len(combinedResults.frameResults) :
          combinedResults.frameResults[k].frameImage \in currentMedia

aggReports == {aggImages, aggFrames} \ {Null, TypeError}

\* C8: the report's totalFramesAnalyzed is the input length, frameResults the
\* input, framesWithDamage the number of units with hasDamage.
C8_CountsMatchInput ==
  \A report \in aggReports :
    /\ report.totalFramesAnalyzed = Len(aggInput)
    /\ report.frameResults = aggInput
    /\ report.framesWithDamage =
         Cardinality({k \in 1..Len(aggInput) : aggInput[k].hasDamage})
    /\ 0 <= report.framesWithDamage
    /\ report.framesWithDamage <= report.totalFramesAnalyzed

\* both aggregators applied to an input with damaged and undamaged units
C8_Witness ==
  /\ aggImages \notin {Null, TypeError}
  /\ aggFrames \notin {Null, TypeError}
  /\ Len(aggInput) = 3
  /\ aggImages.framesWithDamage = 2

\* C9: overallSeverity is the maximum of the units' overallSeverity: at least
\* every unit's severity and the severity of some unit.
C9_SeverityIsMaximum ==
  \A report \in aggReports :
    /\ \A k \in 1..Len(aggInput) :
         severityOrder[aggInput[k].overallSeverity] <= severityOrder[report.overallSeverity]
    /\ \E k \in 1..Len(aggInput) : aggInput[k].overallSeverity = report.overallSeverity

\* the maximum is not the severity of the last unit
C9_Witness ==
  /\ aggImages \notin {Null, TypeError}
  /\ aggFrames \notin {Null, TypeError}
  /\ Len(aggInput) = 3
  /\ aggInput[1].overallSeverity = "Severe"
  /\ aggInput[2].overallSeverity = "None"
  /\ aggInput[3].overallSeverity = "Minor"
  /\ aggFrames.overallSeverity = "Severe"

\* the number of damages of the units before unit k
damagesBefore(input, k) == sumOf([m \in 1..(k - 1) |-> Len(input[m].damages)])

\* unit 0 without damage, unit 1 with a Minor scratch, unit 2 with a Severe dent
ScenarioInput ==
  <<tagUnit(CleanBody, 0, <<1, 2, 3>>), tagUnit(MinorScratchBody, 1, <<1, 2, 3>>),
    tagUnit(SevereDentBody, 2, <<1, 2, 3>>)>>

\* C10: allDamages is the concatenation in unit order of the units' damages,
\* the order inside a unit kept; the three-unit scenario gives
\* framesWithDamage 2, two damages and overallSeverity Severe.
C10_DamagesConcatenated ==
  \A report \in aggReports :
    /\ Len(report.allDamages) = damagesBefore(aggInput, Len(aggInput) + 1)
    /\ \A k \in 1..Len(aggInput) : \A j \in 1..Len(aggInput[k].damages) :
         \A f \in DOMAIN aggInput[k].damages[j] :
            report.allDamages[damagesBefore(aggInput, k) + j][f] = aggInput[k].damages[j][f]
    /\ aggInput = ScenarioInput =>
         /\ report.framesWithDamage = 2
         /\ Len(report.allDamages) = 2
         /\ report.overallSeverity = "Severe"

\* both aggregators applied to the three-unit scenario
C10_Witness ==
  /\ aggInput = ScenarioInput
  /\ aggImages # Null
  /\ aggFrames # Null
  /\ aggImages.allDamages[1].type = "scratch"
  /\ aggImages.allDamages[2].type = "dent"

\* the damage entry d is damage dmg with a frameIndex added
stampOf(d, dmg) == \A f \in DOMAIN dmg : f \in DOMAIN d /\ d[f] = dmg[f]

\* C11 (as claimed): in a report every entry of allDamages has a frameIndex
\* that is an index into the sequence the aggregator was given,
\* 0 <= frameIndex < totalFramesAnalyzed, and the unit at that index of the
\* sequence is the one the damage came from.
C11_IndexIntoAggregatorInput ==
  combinedResults # Null =>
    \A p \in 1..Len(combinedResults.allDamages) :
      LET d == combinedResults.allDamages[p]
      IN  /\ 0 <= d.frameIndex
          /\ d.frameIndex < combinedResults.totalFramesAnalyzed
          /\ \E k \in 1..Len(combinedResults.frameResults[d.frameIndex + 1].damages) :
               stampOf(d, combinedResults.frameResults[d.frameIndex + 1].damages[k])

\* every entry of the report's allDamages points at a unit of the batch as
\* submitted, and that unit is the accepted unit the damage came from
damagesPointIntoBatch(run, log, report) ==
  \A p \in 1..Len(report.allDamages) :
    LET d == report.allDamages[p]
    IN  /\ 0 <= d.frameIndex
        /\ d.frameIndex < Len(run.units)
        /\ log[d.frameIndex + 1].kind = "ok"
        /\ \E k \in 1..Len(log[d.frameIndex + 1].data.damages) :
             stampOf(d, log[d.frameIndex + 1].data.damages[k])
        /\ \E k \in 1..Len(report.frameResults) :
             /\ report.frameResults[k].frameIndex = d.frameIndex
             /\ report.frameResults[k].frameImage = run.units[d.frameIndex + 1]

\* the step stores the report of the batch that returns in it
reportStored == toast' = notice("Comprehensive Analysis Complete", "default")

\* C11 (amended): when a batch returns with a report, every entry of
\* allDamages carries the position in the submitted batch of the unit it came
\* from: 0 <= frameIndex < number of units submitted, the unit submitted at
\* that position was accepted and has the damage, and frameResults holds it
\* under the same frameIndex.
C11_IndexIntoBatch ==
  [][\A resp \in Responses :
       /\ (imagesRunEnds(resp) /\ reportStored)
          => damagesPointIntoBatch(imagesRun, fullLog(imagesRun, resp), combinedResults')
       /\ (framesRunEnds(resp) /\ reportStored)
          => damagesPointIntoBatch(framesRun, fullLog(framesRun, resp), combinedResults')]_vars

\* a report of a batch of two whose unit 0 failed: the damage of unit 1 is
\* stamped 1 while the aggregator was given one unit
C11_Witness ==
  /\ combinedResults # Null
  /\ combinedResults.totalFramesAnalyzed = 1
  /\ Len(combinedResults.allDamages) = 1
  /\ combinedResults.allDamages[1].frameIndex = 1
  /\ combinedResults.allDamages[1].type = "dent"


\* the rearrangements of a sequence
permsOf(s) ==
  {[k \in 1..Len(s) |-> s[f[k]]] :
     f \in {g \in [1..Len(s) -> 1..Len(s)] :
              \A a, b \in 1..Len(s) : a # b => g[a] # g[b]}}

noDuplicates(list) == Cardinality(Range(list)) = Len(list)

\* the reports both aggregators give for an input
reportsOf(input) == {combineImageResults(input), combineFrameResults(input)}

\* C12: for every rearrangement of the input both aggregators give the same
\* overallSeverity, the same set of uniqueDamageTypes and the same set of
\* affectedAreas; uniqueDamageTypes holds, without duplicates, exactly the
\* type values of allDamages, affectedAreas exactly the areas of the units.
C12_OrderInsensitive ==
  \A report \in aggReports :
    /\ noDuplicates(report.uniqueDamageTypes)
    /\ Range(report.uniqueDamageTypes) =
         {report.allDamages[p].type : p \in 1..Len(report.allDamages)}
    /\ noDuplicates(report.affectedAreas)
    /\ Range(report.affectedAreas) =
         UNION {Range(aggInput[k].affectedAreas) : k \in 1..Len(aggInput)}
    /\ \A perm \in permsOf(aggInput) : \A other \in reportsOf(perm) :
         /\ other.overallSeverity = report.overallSeverity
         /\ Range(other.uniqueDamageTypes) = Range(report.uniqueDamageTypes)
         /\ Range(other.affectedAreas) = Range(report.affectedAreas)

\* three units sharing types and areas, whose reversal lists them in another
\* order
C12_Witness ==
  /\ Len(aggInput) = 3
  /\ aggImages \notin {Null, TypeError}
  /\ aggFrames \notin {Null, TypeError}
  /\ aggImages.uniqueDamageTypes = <<"scratch", "dent">>
  /\ aggImages.affectedAreas = <<"door", "hood">>
  /\ Len(aggImages.allDamages) = 4
  /\ combineImageResults(<<aggInput[3], aggInput[2], aggInput[1]>>).uniqueDamageTypes
       = <<"dent", "scratch">>

\* the recommendations of the units in scanning order, duplicates included
scanRecommendations(input) ==
  flat([k \in 1..Len(input) |->
          IF "recommendations" \in DOMAIN input[k] THEN input[k].recommendations ELSE <<>>])

firstPosition(list, x) ==
  CHOOSE p \in 1..Len(list) : list[p] = x /\ \A q \in 1..(p - 1) : list[q] # x

\* C13: the report's recommendations hold every recommendation of every unit
\* exactly once, in the order of their first occurrence when the units are
\* scanned in input order; a unit without the property adds nothing.
C13_RecommendationsFirstOccurrence ==
  \A report \in aggReports :
    LET scan == scanRecommendations(aggInput)
        recs == report.recommendations
    IN  /\ noDuplicates(recs)
        /\ Range(recs) = Range(scan)
        /\ \A a, b \in 1..Len(recs) :
             a < b => firstPosition(scan, recs[a]) < firstPosition(scan, recs[b])

\* a unit without recommendations between two units, the last of which
\* repeats a recommendation of the first after a new one
C13_Witness ==
  /\ Len(aggInput) = 3
  /\ aggImages \notin {Null, TypeError}
  /\ aggFrames \notin {Null, TypeError}
  /\ "recommendations" \in DOMAIN aggInput[1]
  /\ "recommendations" \notin DOMAIN aggInput[2]
  /\ "recommendations" \in DOMAIN aggInput[3]
  /\ aggInput[1].recommendations = <<"polish the panel">>
  /\ aggInput[3].recommendations = <<"visit a body shop", "polish the panel">>
  /\ aggFrames.recommendations = <<"polish the panel", "visit a body shop">>

\* a bound of a unit's cost, 0 for a missing cost or bound
boundOrZero(unit, bound) ==
  IF "estimatedRepairCost" \in DOMAIN unit /\ bound \in DOMAIN unit.estimatedRepairCost
  THEN unit.estimatedRepairCost[bound]
  ELSE 0

greatest(S) == CHOOSE x \in S : \A y \in S : y <= x

\* units with cost 5000..25000 and 25000..100000
CostScenarioInput ==
  <<tagUnit(MinorScratchBody, 0, <<1, 2>>), tagUnit(SevereDentBody, 1, <<1, 2>>)>>

\* C14: the report's cost min is the greatest cost min of the units and its
\* cost max the greatest cost max, a missing cost or bound counting as 0;
\* mins [5000, 25000] and maxes [25000, 100000] give 25000 and 100000.
C14_CostIsMaxOfBounds ==
  \A report \in aggReports :
    /\ report.estimatedRepairCost.min =
         greatest({boundOrZero(aggInput[k], "min") : k \in 1..Len(aggInput)})
    /\ report.estimatedRepairCost.max =
         greatest({boundOrZero(aggInput[k], "max") : k \in 1..Len(aggInput)})
    /\ aggInput = CostScenarioInput =>
         /\ report.estimatedRepairCost.min = 25000
         /\ report.estimatedRepairCost.max = 100000

\* both aggregators applied to the two-unit cost scenario
C14_Witness ==
  /\ aggInput = CostScenarioInput
  /\ aggImages \notin {Null, TypeError}
  /\ aggFrames \notin {Null, TypeError}
  /\ aggImages.estimatedRepairCost.min = 25000
  /\ aggFrames.estimatedRepairCost.max = 100000

\* the currency code of a unit's cost, "" when there is none
currencyOrEmpty(unit) ==
  IF "estimatedRepairCost" \in DOMAIN unit /\ "currency" \in DOMAIN unit.estimatedRepairCost
  THEN unit.estimatedRepairCost.currency
  ELSE ""

\* C15: the report's currency is the currency of the first unit in input
\* order whose cost has a non-empty currency, and "INR" when there is none.
C15_CurrencyOfFirstUnitWithOne ==
  \A report \in aggReports :
    LET withCurrency == {k \in 1..Len(aggInput) : currencyOrEmpty(aggInput[k]) # ""}
    IN  report.estimatedRepairCost.currency =
          IF withCurrency = {} THEN "INR"
          ELSE currencyOrEmpty(aggInput[CHOOSE k \in withCurrency :
                                          \A m \in withCurrency : k <= m])

\* the first unit has an empty currency, the second has no cost, the third
\* has a currency other than "INR"
C15_Witness ==
  /\ Len(aggInput) = 3
  /\ aggImages \notin {Null, TypeError}
  /\ aggFrames \notin {Null, TypeError}
  /\ currencyOrEmpty(aggInput[1]) = ""
  /\ "estimatedRepairCost" \in DOMAIN aggInput[1]
  /\ "estimatedRepairCost" \notin DOMAIN aggInput[2]
  /\ currencyOrEmpty(aggInput[3]) = "USD"
  /\ aggImages.estimatedRepairCost.currency = "USD"
  /\ aggFrames.estimatedRepairCost.currency = "USD"

\* C18: an aggregator applied to a non-empty sequence of accepted unit
\* results returns a report, it does not throw.
C18_AggregatorNeverThrows == aggImages # TypeError /\ aggFrames # TypeError


\* the text is one JSON value with nothing but tokens of the kinds in
\* around next to it
isJsonText(text, around) ==
  \E p \in 1..Len(text) :
    /\ text[p].tok = "value"
    /\ \A q \in 1..Len(text) : q # p => text[q].tok \in around

\* the texts enclosed by a code fence of the content, a json after the
\* opening fence left out
fencedTexts(text) ==
  {SubSeq(text, IF text[p + 1].tok = "json" THEN p + 2 ELSE p + 1, q - 1) :
     <<p, q>> \in {pq \in (1..Len(text)) \X (1..Len(text)) :
                     /\ pq[1] < pq[2]
                     /\ text[pq[1]].tok = "fence"
                     /\ text[pq[2]].tok = "fence"
                     /\ \A m \in (pq[1] + 1)..(pq[2] - 1) : text[m].tok # "fence"}}

\* the content is absent, or neither it (JSON white space allowed around the
\* value) nor what a code fence of it encloses (any white space allowed
\* around the value) is JSON
unparseable(reply) ==
  \/ ~reply.present
  \/ /\ ~isJsonText(reply.text, {"space"})
     /\ \A inner \in fencedTexts(reply.text) : ~isJsonText(inner, {"space", "nbsp"})

\* C16: when the content of the model's reply is absent or not JSON, with or
\* without a code fence around it, the function answers with status 200 and
\* the fixed result (hasVehicle false, hasDamage false, overallSeverity None,
\* confidenceScore 0, no damages, no affectedAreas, the could-not-process
\* summary, annotatedImage null), without an error property, and makes no
\* annotation request.
C16_UnparseableReplyGivesFallback ==
  (handler.replied /\ unparseable(handler.reply)) =>
    /\ handler.pc = "responded"
    /\ handler.requests = <<"analysis">>
    /\ handler.response.status = 200
    /\ "error" \notin DOMAIN handler.response.body
    /\ handler.response.body.hasVehicle = FALSE
    /\ handler.response.body.hasDamage = FALSE
    /\ handler.response.body.overallSeverity = "None"
    /\ handler.response.body.confidenceScore = 0
    /\ handler.response.body.damages = <<>>
    /\ handler.response.body.affectedAreas = <<>>
    /\ handler.response.body.summary
         = "Could not process the image. Please upload a clear image."
    /\ handler.response.body.annotatedImage = NoUrl

\* the response to a reply whose code fence encloses text that is not JSON
C16_Witness ==
  /\ handler.pc = "responded"
  /\ handler.replied
  /\ handler.reply = [present |-> TRUE, text |-> <<Fence, JsonTag, Prose, Fence>>]
  /\ handler.response.status = 200
  /\ handler.response.body.confidenceScore = 0

\* C17: the result the function constructs itself for a reply it cannot
\* parse has estimatedRepairCost.currency "INR".
C17_FallbackCurrencyINR ==
  (handler.pc = "responded" /\ handler.replied /\ unparseable(handler.reply)
     /\ handler.response.status = 200)
  => handler.response.body.estimatedRepairCost.currency = "INR"


\* the frames of a complete pass over a video: one for each of the
\* min(6, ceil(duration)) sample times, in increasing order of time
completePass(file) ==
  LET seconds == (file.duration + 9) \div 10
      frameCount == IF seconds < 6 THEN seconds ELSE 6
  IN  [k \in 1..frameCount |-> file.url * 10 + (k - 1)]

\* C19: videoFrames is empty or holds all the frames of one extraction pass
\* in increasing sample-time order, never a strict prefix of a pass.
C19_CompletePassOnly ==
  \/ videoFrames = <<>>
  \/ \E file \in FileSet : file.type.major = "video" /\ videoFrames = completePass(file)

\* no file, one file that is neither image nor video, or several files none
\* of which is an image
noQualifyingFile(files) ==
  \/ Len(files) = 0
  \/ Len(files) = 1 /\ files[1].type.major \notin {"image", "video"}
  \/ Len(files) > 1 /\ \A k \in 1..Len(files) : files[k].type.major # "image"

\* C20: a drop or a file selection without a qualifying file starts no file
\* read and changes no media, result or flag state, isDragOver being one of
\* the flags.
C20_NoQualifyingFileNoChange ==
  [][\A files \in FileLists :
       (noQualifyingFile(files) /\ (handleDrop(files) \/ handleFileSelect(files)))
       => /\ readers' = readers
          /\ UNCHANGED <<mediaVars, resultVars, flagVars>>]_vars

\* C20, amended: a drop or a file selection without a qualifying file starts
\* no file read and changes no media, no result and none of the flags
\* isExtractingFrames, isAnalyzing, isAnalyzingAllFrames and
\* isAnalyzingAllImages; a file selection leaves isDragOver as it is too, a
\* drop sets it to false.
C20_NoQualifyingFileOnlyHighlight ==
  [][\A files \in FileLists :
       noQualifyingFile(files) =>
         /\ handleFileSelect(files) =>
              /\ readers' = readers
              /\ UNCHANGED <<mediaVars, resultVars, analysisFlags, isDragOver>>
         /\ handleDrop(files) =>
              /\ readers' = readers
              /\ UNCHANGED <<mediaVars, resultVars, analysisFlags>>
              /\ isDragOver' = FALSE]_vars

\* the upload view with the drop zone highlighted, where files can be
\* dropped, while a batch is in flight and a result of it would be lost by a
\* change of state
C20_Witness ==
  /\ View = "upload"
  /\ isDragOver
  /\ Len(readers) < MaxPending
  /\ uploads < MaxUploads
  /\ isAnalyzingAllImages
  /\ imagesRun.pc = "await"


\* the image files of a list in their original order
imagesInOrder(files) ==
  LET pos == {k \in 1..Len(files) : files[k].type.major = "image"}
      nth(m) == CHOOSE k \in pos : Cardinality({x \in pos : x <= k}) = m
  IN  [m \in 1..Cardinality(pos) |-> files[nth(m)]]

\* the file reads a list of files has to start: by the number of files
\* first, then by MIME prefix
expectedReads(files) ==
  IF Len(files) = 1 /\ files[1].type.major = "image"
  THEN <<[kind |-> "image", files |-> files, images |-> <<>>]>>
  ELSE IF Len(files) = 1 /\ files[1].type.major = "video"
  THEN <<[kind |-> "video", files |-> files, images |-> <<>>]>>
  ELSE IF Len(files) > 1 /\ imagesInOrder(files) # <<>>
  THEN <<[kind |-> "multi", files |-> imagesInOrder(files), images |-> <<>>]>>
  ELSE <<>>

\* C21: a drop and a file selection start the same reads, and where the drop
\* zone is not highlighted they are the same step: one file is read
\* as image or video by its MIME prefix, several files with at least one
\* image are read as the image files in their original order; when the read
\* completes mediaType is image, video or multi-image accordingly, and for
\* multi-image uploadedImages holds the images in that order with the first
\* one selected (selectedImageIndex 0, uploadedImage = uploadedImages[0]),
\* also when one image remains.
C21_ClassifiedByCountThenType ==
  [][/\ \A files \in FileLists :
          /\ handleDrop(files) => readers' = readers \o expectedReads(files)
          /\ handleFileSelect(files) => readers' = readers \o expectedReads(files)
          /\ ~isDragOver => (handleDrop(files) <=> handleFileSelect(files))
     /\ \A j \in 1..Len(readers) :
          /\ processImageFile(j) =>
               mediaType' = "image" /\ uploadedImage' = readers[j].files[1].url
          /\ processVideoFile(j) =>
               mediaType' = "video" /\ uploadedVideo' = readers[j].files[1].url
          /\ (processMultipleImages(j) /\ Len(readers') < Len(readers)) =>
               /\ mediaType' = "multi-image"
               /\ uploadedImages' =
                    [k \in 1..Len(readers[j].files) |-> readers[j].files[k].url]
               /\ selectedImageIndex' = 0
               /\ uploadedImage' = uploadedImages'[1]]_vars

\* two images loaded in the order they were given, which is not the order of
\* their names, the first one selected
C21_Witness ==
  /\ mediaType = "multi-image"
  /\ uploadedImages = <<ImageFile2.url, ImageFile1.url>>
  /\ selectedImageIndex = 0
  /\ uploadedImage = ImageFile2.url
  /\ readers = <<>>


\* C22: a frame extraction that is not waiting for a seek to complete has
\* ended: whenever no seek of a pass is pending, also after a draw or a seek
\* of the pass threw, isExtractingFrames is false.
C22_ExtractionEnds == extraction.pc # "seeking" => ~isExtractingFrames


\* the state a batch leaves behind when it finishes
batchReset(flag) ==
  /\ ~flag
  /\ analysisProgress = [num |-> 0, den |-> 1]
  /\ currentAnalyzingFrame = 0

imagesRunReturns == imagesRun.pc = "await" /\ imagesRun'.pc = "idle"
framesRunReturns == framesRun.pc = "await" /\ framesRun'.pc = "idle"

\* a step of a pending run that does not finish it moves on to the next unit
\* of the same batch
runAdvances(run, after) ==
  (run.pc = "await" /\ after # run /\ after.pc = "await") =>
    /\ after.units = run.units
    /\ after.i = run.i + 1
    /\ after.i < Len(run.units)

\* C23: a started batch finishes once its analysis calls have returned or
\* thrown: every continuation of a pending call either finishes the batch or
\* moves it one unit closer to the end of the batch (so a batch of n units
\* finishes after at most n calls), and the step that finishes it (with a report, with all
\* units failed, or on an exception) leaves its in-flight flag false and
\* analysisProgress and currentAnalyzingFrame both 0.
C23_BatchFinishesAndResets ==
  [][/\ imagesRunReturns => batchReset(isAnalyzingAllImages)'
     /\ framesRunReturns => batchReset(isAnalyzingAllFrames)'
     /\ runAdvances(imagesRun, imagesRun')
     /\ runAdvances(framesRun, framesRun')]_vars

C23_Witness ==
  /\ toast = notice("Comprehensive Analysis Complete", "default")
  /\ combinedResults \notin {Null, TypeError}
  /\ imagesRun = IdleRun /\ framesRun = IdleRun
  /\ batchReset(isAnalyzingAllImages) /\ batchReset(isAnalyzingAllFrames)


\* C24: a single-unit analysis that gets a boundary error, a body with an
\* error field or a thrown invocation leaves results as it was, raises the
\* failure notice and returns isAnalyzing to false; a success body is stored
\* in results.
C24_FailedSingleStoresNothing ==
  [][\A resp \in Responses :
       analyzeImageResume(resp) =>
         /\ ~isAnalyzing'
         /\ resp.kind \in {"error", "bodyError", "throw"} =>
              /\ results' = results
              /\ toast' = notice("Analysis Failed", "destructive")
         /\ resp.kind = "ok" => results' = resp.data]_vars

\* a failed single-unit analysis after a successful one: the earlier result
\* is still there
C24_Witness ==
  /\ toast = notice("Analysis Failed", "destructive")
  /\ results = DamagedBody
  /\ ~isAnalyzing /\ single = IdleSingle
  /\ imagesRun = IdleRun /\ framesRun = IdleRun
  /\ ~isAnalyzingAllImages /\ ~isAnalyzingAllFrames


\* C25: at most one of results (the single-unit report) and combinedResults
\* (the combined report) is non-null, also after a single-unit analysis that
\* was started while a combined report was shown.
C25_AtMostOneReport == ~(results # Null /\ combinedResults # Null)


\* C26: the aggregator is never reached with an empty sequence: every
\* combined report a batch stores was computed from at least one unit result.
C26_AggregatorInputNonEmpty ==
  combinedResults # Null =>
    /\ combinedResults.totalFramesAnalyzed >= 1
    /\ Len(combinedResults.frameResults) >= 1

\* a batch of two units of which one failed: the report is over the other one
C26_Witness ==
  /\ combinedResults # Null
  /\ combinedResults.totalFramesAnalyzed = 1
  /\ mediaType = "multi-image" /\ Len(uploadedImages) = 2
  /\ imagesRun = IdleRun


\* every unit's own cost range is in order, a missing bound counting as 0
unitsConsistent ==
  \A k \in 1..Len(aggInput) :
    boundOrZero(aggInput[k], "min") <= boundOrZero(aggInput[k], "max")

\* C27: the combined cost range is inverted only when some unit's own range
\* is: if every unit has min <= max, the report has min <= max.
C27_InvertedOnlyIfUnitInverted ==
  \A report \in aggReports :
    unitsConsistent => report.estimatedRepairCost.min <= report.estimatedRepairCost.max

\* three consistent units with different ranges, combined by both aggregators
C27_Witness ==
  /\ Len(aggInput) = 3
  /\ unitsConsistent
  /\ \E k, m \in 1..Len(aggInput) :
       boundOrZero(aggInput[k], "min") < boundOrZero(aggInput[m], "min")
  /\ aggImages \notin {Null, TypeError}
  /\ aggFrames \notin {Null, TypeError}
  /\ aggImages.estimatedRepairCost.min < aggImages.estimatedRepairCost.max
  /\ aggFrames.estimatedRepairCost.min < aggFrames.estimatedRepairCost.max


\* the fields of a combined report other than its summary
reportFields ==
  {"totalFramesAnalyzed", "framesWithDamage", "overallSeverity", "averageConfidence",
   "allDamages", "uniqueDamageTypes", "affectedAreas", "estimatedRepairCost",
   "recommendations", "frameResults"}

\* the positions of the summary sentence that hold the fixed wording for
\* the kind of unit
wordingPositions == {3, 5}

\* C28: combineImageResults and combineFrameResults are the same aggregator:
\* on the same non-empty input both throw or both return, and the reports
\* they return are equal in every field except the fixed wording of the
\* summary sentence ("images" / "image(s)" against "video frames" /
\* "frame(s)").
C28_SameAggregator ==
  (aggImages # Null /\ aggFrames # Null) =>
    IF aggImages = TypeError \/ aggFrames = TypeError
    THEN aggImages = aggFrames
    ELSE /\ DOMAIN aggImages = reportFields \cup {"summary"}
         /\ DOMAIN aggFrames = reportFields \cup {"summary"}
         /\ \A f \in reportFields : aggImages[f] = aggFrames[f]
         /\ Len(aggImages.summary) = Len(aggFrames.summary)
         /\ \A k \in 1..Len(aggImages.summary) :
              k \notin wordingPositions => aggImages.summary[k] = aggFrames.summary[k]
         /\ aggImages.summary[3] = " images reveals "
         /\ aggFrames.summary[3] = " video frames reveals "
         /\ aggImages.summary[5] = " image(s) showing vehicle damage. "
         /\ aggFrames.summary[5] = " frame(s) showing vehicle damage. "

\* three units with damage, an odd confidence sum, combined by both
C28_Witness ==
  /\ Len(aggInput) = 3
  /\ aggImages \notin {Null, TypeError}
  /\ aggFrames \notin {Null, TypeError}
  /\ aggImages.framesWithDamage >= 2
  /\ Len(aggFrames.allDamages) >= 3
  /\ aggImages.summary # aggFrames.summary
  /\ aggImages.frameResults = aggInput


\* C29: the loaded media agree with mediaType: videoFrames is non-empty only
\* while mediaType is "video" and a video is loaded, uploadedImages is
\* non-empty only while mediaType is "multi-image", and while no media are
\* loaded (mediaType null, as after clearMedia) uploadedImage, uploadedImages,
\* uploadedVideo, videoFrames, results and combinedResults are all empty,
\* also when a frame extraction was in flight when the media were cleared.
C29_MediaConsistentWithType ==
  /\ Len(videoFrames) > 0 => (mediaType = "video" /\ uploadedVideo # NoUrl)
  /\ Len(uploadedImages) > 0 => mediaType = "multi-image"
  /\ mediaType = "null" =>
       /\ uploadedImage = NoUrl
       /\ uploadedImages = <<>>
       /\ uploadedVideo = NoUrl
       /\ videoFrames = <<>>
       /\ results = Null
       /\ combinedResults = Null

\* C29, the part about frames: videoFrames is non-empty only while mediaType
\* is "video" and a video is loaded, also when an extraction was in flight
\* when the media were cleared.
C29_FramesOnlyOfLoadedVideo ==
  Len(videoFrames) > 0 => (mediaType = "video" /\ uploadedVideo # NoUrl)


\* C30: a displayed single-unit result belongs to the selected unit: whenever
\* results is non-null and was computed from one of the units that are
\* loaded, that unit is the one now held in uploadedImage, also when the
\* selection changed while the analysis was in flight.
C30_ResultOfSelectedUnit ==
  (results # Null /\ resultsOf \in currentMedia) => resultsOf = uploadedImage


=============================================================================
